---- MODULE Spec2Model ----
(***************************************************************************)
(* A model of the sogenactif package (sogen.go) and of its config loader   *)
(* (sogen/config.go).                                                      *)
(*                                                                         *)
(* Strings.  A Go string is modelled as a sequence of atoms.  An atom is   *)
(* either one byte that some modelled operation looks at (" ", "!", "$",   *)
(* "{", "}", "/", ".", "%", "+", "\n", a digit, an upper-case letter) or a *)
(* word: a fixed run of bytes taken from the program text or from the      *)
(* input vocabulary, which no modelled operation splits.  The same text is *)
(* always written with the same atoms, so equality of sequences is         *)
(* equality of strings.                                                    *)
(*                                                                         *)
(* Pointers.  A Go pointer that may be nil is a sequence of length at most *)
(* one: <<>> is nil, <<x>> points to x.                                    *)
(***************************************************************************)
EXTENDS Integers, Sequences, FiniteSets, Bags, TLC

VARIABLES
    env,      \* the process environment: variable name -> value ("" = unset)
    fs,       \* the filesystem: path -> content, for the paths that exist
    conf,     \* the *Config the program holds (nil or one Config object)
    loaded,   \* the options of the file conf was loaded from by LoadConfig
              \* (nil when conf was not built by LoadConfig)
    sogen,    \* the *Sogen returned by the last NewSogen (nil or one Sogen)
    txn,      \* the *Transaction returned by the last NewTransaction
    calls,    \* the handler calls in flight: for each goroutine, where it is
              \* in Checkout or HandlePayment and the values of its locals
    last      \* what the last call did: its inputs, result and output

vars == <<env, fs, conf, loaded, sogen, txn, calls, last>>

Nil == <<>>
Ptr(x) == <<x>>
IsNil(p) == Len(p) = 0
Deref(p) == p[1]

----------------------------------------------------------------------------
(* Strings *)

RECURSIVE Concat(_)
\* The concatenation of a sequence of strings (fmt.Sprintf of a template
\* whose verbs are all %s, the pieces given in order).
Concat(ss) == IF ss = <<>> THEN <<>> ELSE Head(ss) \o Concat(Tail(ss))

RECURSIVE TrimLeftSpaces(_)
TrimLeftSpaces(s) ==
    IF s # <<>> /\ Head(s) = " " THEN TrimLeftSpaces(Tail(s)) ELSE s

RECURSIVE TrimRightSpaces(_)
TrimRightSpaces(s) ==
    IF s # <<>> /\ s[Len(s)] = " "
    THEN TrimRightSpaces(SubSeq(s, 1, Len(s) - 1))
    ELSE s

\* strings.Trim(s, " ")
Trim(s) == TrimRightSpaces(TrimLeftSpaces(s))

\* strings.Index(s, sep) for a one-byte sep, 1-based; 0 when absent.
IndexOf(s, sep) ==
    IF \E i \in 1..Len(s) : s[i] = sep
    THEN CHOOSE i \in 1..Len(s) : s[i] = sep /\ \A j \in 1..(i - 1) : s[j] # sep
    ELSE 0

RECURSIVE Split(_, _)
\* strings.Split(s, sep) for a one-byte sep: Split("", "!") is [""], a
\* string with n separators gives n+1 fields.
Split(s, sep) ==
    LET i == IndexOf(s, sep) IN
    IF i = 0 THEN <<s>>
    ELSE <<SubSeq(s, 1, i - 1)>> \o Split(SubSeq(s, i + 1, Len(s)), sep)

RECURSIVE JoinWith(_, _)
\* strings.Join(elems, sep)
JoinWith(elems, sep) ==
    IF elems = <<>> THEN <<>>
    ELSE IF Len(elems) = 1 THEN elems[1]
    ELSE elems[1] \o <<sep>> \o JoinWith(Tail(elems), sep)

\* Whether sub occurs in s at (1-based) position i.
MatchAt(s, sub, i) ==
    /\ i + Len(sub) - 1 <= Len(s)
    /\ SubSeq(s, i, i + Len(sub) - 1) = sub

RECURSIVE ReplaceAll(_, _, _)
\* strings.Replace(s, old, new, -1) for a non-empty old: the occurrences of
\* old are found left to right, without overlap, in s itself.
ReplaceAll(s, old, new) ==
    IF s = <<>> THEN <<>>
    ELSE IF MatchAt(s, old, 1)
         THEN new \o ReplaceAll(SubSeq(s, Len(old) + 1, Len(s)), old, new)
         ELSE <<Head(s)>> \o ReplaceAll(Tail(s), old, new)

SelectNonEmpty(ss) == SelectSeq(ss, LAMBDA e : e # <<>>)

\* path.Clean on the paths the model builds: repeated and trailing slashes
\* and "." elements are dropped; no element is "..".
Clean(p) ==
    LET rooted == p # <<>> /\ Head(p) = "/"
        elems == SelectSeq(Split(p, "/"), LAMBDA e : e # <<>> /\ e # <<".">>)
        body == JoinWith(elems, "/")
    IN  IF rooted THEN <<"/">> \o body
        ELSE IF body = <<>> THEN <<".">> ELSE body

\* path.Join: empty elements are ignored, the rest joined with "/" and
\* cleaned; all elements empty gives "".
PathJoin(elems) ==
    LET ne == SelectNonEmpty(elems) IN
    IF ne = <<>> THEN <<>> ELSE Clean(JoinWith(ne, "/"))

----------------------------------------------------------------------------
(* net/url, on URLs that consist of a path only ("/cancel", "/${A}/x"):    *)
(* the only bytes the path encoding escapes are "{", "}", " " and "%", and *)
(* the only percent-escapes that occur are those four.                     *)

\* escape(s, encodePath), byte by byte.
EscapeByte(b) ==
    CASE b = "{" -> <<"%", "7", "B">>
      [] b = "}" -> <<"%", "7", "D">>
      [] b = " " -> <<"%", "2", "0">>
      [] b = "%" -> <<"%", "2", "5">>
      [] OTHER -> <<b>>

RECURSIVE EscapePath(_)
EscapePath(s) ==
    IF s = <<>> THEN <<>> ELSE EscapeByte(Head(s)) \o EscapePath(Tail(s))

\* The byte a percent-escape stands for; <<>> when it is not one of the
\* escapes of the domain (an EscapeError).
UnhexByte(h1, h2) ==
    CASE h1 = "7" /\ h2 = "B" -> <<"{">>
      [] h1 = "7" /\ h2 = "D" -> <<"}">>
      [] h1 = "2" /\ h2 = "0" -> <<" ">>
      [] h1 = "2" /\ h2 = "5" -> <<"%">>
      [] OTHER -> <<>>

RECURSIVE ValidEscapes(_)
\* Whether every "%" of s starts a percent-escape (unescape's first pass).
ValidEscapes(s) ==
    IF s = <<>> THEN TRUE
    ELSE IF Head(s) = "%"
         THEN /\ Len(s) >= 3
              /\ UnhexByte(s[2], s[3]) # <<>>
              /\ ValidEscapes(SubSeq(s, 4, Len(s)))
         ELSE ValidEscapes(Tail(s))

RECURSIVE Unescape(_, _)
\* unescape(s, mode) for a string with valid escapes; plus is TRUE in
\* query-component mode, where "+" stands for a space.
Unescape(s, plus) ==
    IF s = <<>> THEN <<>>
    ELSE IF Head(s) = "%"
         THEN UnhexByte(s[2], s[3]) \o Unescape(SubSeq(s, 4, Len(s)), plus)
         ELSE IF plus /\ Head(s) = "+"
              THEN <<" ">> \o Unescape(Tail(s), plus)
              ELSE <<Head(s)>> \o Unescape(Tail(s), plus)

\* url.Parse: the *URL (its Path unescaped), or nil with an error.
UrlParse(s) ==
    IF ValidEscapes(s)
    THEN [err |-> FALSE, url |-> Ptr([Path |-> Unescape(s, FALSE)])]
    ELSE [err |-> TRUE, url |-> Nil]

\* (*URL).String
UrlString(u) == EscapePath(u.Path)

\* url.QueryUnescape
QueryUnescape(s) ==
    IF ValidEscapes(s)
    THEN [err |-> FALSE, s |-> Unescape(s, TRUE)]
    ELSE [err |-> TRUE, s |-> <<>>]

\* fmt's %s of a *url.URL: String() of the URL, "<nil>" for a nil pointer.
FmtUrl(p) == IF IsNil(p) THEN <<"<nil>">> ELSE UrlString(Deref(p))

----------------------------------------------------------------------------
(* sogen/config.go *)

\* The bytes of the alphabet that the class [A-Z_] matches.
NameBytes == {"A", "B", "D", "_"}

RECURSIVE NameRun(_)
\* The length of the longest prefix of s made of [A-Z_] bytes.
NameRun(s) ==
    IF s # <<>> /\ Head(s) \in NameBytes THEN 1 + NameRun(Tail(s)) ELSE 0

RECURSIVE FindAllVars(_)
\* r.FindAllString(src, -1) for the pattern \${([A-Z_]+)}: the matches from
\* left to right, each search starting after the previous match.
FindAllVars(s) ==
    IF s = <<>> THEN <<>>
    ELSE LET n == IF Len(s) >= 2 /\ s[1] = "$" /\ s[2] = "{"
                  THEN NameRun(SubSeq(s, 3, Len(s))) ELSE 0
             hit == n >= 1 /\ Len(s) >= n + 3 /\ s[n + 3] = "}"
         IN  IF hit
             THEN <<SubSeq(s, 1, n + 3)>> \o FindAllVars(SubSeq(s, n + 4, Len(s)))
             ELSE FindAllVars(Tail(s))

\* os.Getenv: the value of the variable, "" when it is not set.
Getenv(e, name) == IF name \in DOMAIN e THEN e[name] ELSE <<>>

RECURSIVE ReplaceLoop(_, _, _)
\* The loop of replaceEnvVars over the matches: each match in turn is
\* looked up and replaced everywhere in the current src.
ReplaceLoop(src, envs, e) ==
    IF envs = <<>> THEN [err |-> FALSE, s |-> src]
    ELSE LET varname == Head(envs)
             evar == Getenv(e, SubSeq(varname, 3, Len(varname) - 1))
         IN  IF evar = <<>> THEN [err |-> TRUE, s |-> <<>>]
             ELSE ReplaceLoop(ReplaceAll(src, varname, evar), Tail(envs), e)

replaceEnvVars(src, e) == ReplaceLoop(src, FindAllVars(src), e)

\* handleQuery(uri) for a non-nil uri.
handleQuery(uri, e) ==
    LET qs == QueryUnescape(UrlString(Deref(uri))) IN
    IF qs.err THEN [err |-> TRUE, url |-> Nil]
    ELSE LET r == replaceEnvVars(qs.s, e) IN
         IF r.err THEN [err |-> TRUE, url |-> Nil]
         ELSE UrlParse(r.s)

\* handleEnvVars(c): err, and the Config as the call leaves it.
handleEnvVars(c, e) ==
    IF IsNil(c) THEN [err |-> TRUE, c |-> c]
    ELSE LET c0 == Deref(c)
             cu == IF IsNil(c0.CancelUrl) THEN [err |-> FALSE, url |-> Nil]
                   ELSE handleQuery(c0.CancelUrl, e)
             c1 == IF IsNil(c0.CancelUrl) THEN c0
                   ELSE [c0 EXCEPT !.CancelUrl = cu.url]
             ru == IF IsNil(c1.ReturnUrl) THEN [err |-> FALSE, url |-> Nil]
                   ELSE handleQuery(c1.ReturnUrl, e)
             c2 == IF IsNil(c1.ReturnUrl) THEN c1
                   ELSE [c1 EXCEPT !.ReturnUrl = ru.url]
         IN  IF cu.err THEN [err |-> TRUE, c |-> Ptr(c0)]
             ELSE IF ru.err THEN [err |-> TRUE, c |-> Ptr(c1)]
             ELSE [err |-> FALSE, c |-> Ptr(c2)]

\* &sogenactif.Config{}: every field at its zero value.
ZeroConfig ==
    [Debug |-> FALSE, LogoPath |-> <<>>, LibraryPath |-> <<>>,
     MerchantsRootDir |-> <<>>, MediaPath |-> <<>>, MerchantId |-> <<>>,
     MerchantCountry |-> <<>>, MerchantCurrencyCode |-> <<>>,
     AutoResponseUrl |-> Nil, CancelUrl |-> Nil, ReturnUrl |-> Nil]

\* The options of section "sogenactif" that LoadConfig reads, in order.
StringOptions ==
    <<"logo_path", "merchants_rootdir", "media_path", "merchant_id",
      "merchant_country", "merchant_currency_code", "cancel_url", "return_url">>

\* c.Bool of the config library: the value, or an error when the option is
\* missing or is no boolean word.
ConfigBool(file, opt) ==
    IF IsNil(file[opt]) THEN [err |-> TRUE, b |-> FALSE]
    ELSE IF Deref(file[opt]) = <<"true">> THEN [err |-> FALSE, b |-> TRUE]
    ELSE IF Deref(file[opt]) = <<"false">> THEN [err |-> FALSE, b |-> FALSE]
    ELSE [err |-> TRUE, b |-> FALSE]

\* LoadConfig(path), file being the options of the file at path (an option
\* is nil when the file does not define it): err, and the *Config returned.
LoadConfig(file, e) ==
    LET dbg == ConfigBool(file, "debug")
        missing == \E i \in 1..Len(StringOptions) : IsNil(file[StringOptions[i]])
        val(opt) == Deref(file[opt])
        cUrl == UrlParse(val("cancel_url"))
        rUrl == UrlParse(val("return_url"))
        settings == [ZeroConfig EXCEPT
                        !.Debug = dbg.b,
                        !.LogoPath = val("logo_path"),
                        !.MerchantsRootDir = val("merchants_rootdir"),
                        !.MediaPath = val("media_path"),
                        !.MerchantId = val("merchant_id"),
                        !.MerchantCountry = val("merchant_country"),
                        !.MerchantCurrencyCode = val("merchant_currency_code"),
                        !.CancelUrl = cUrl.url,
                        !.ReturnUrl = rUrl.url]
    IN  IF dbg.err \/ missing THEN [err |-> TRUE, c |-> Nil]
        ELSE IF cUrl.err \/ rUrl.err THEN [err |-> TRUE, c |-> Nil]
        ELSE LET h == handleEnvVars(Ptr(settings), e) IN
             IF h.err THEN [err |-> TRUE, c |-> Nil]
             ELSE [err |-> FALSE, c |-> h.c]

----------------------------------------------------------------------------
(* sogen.go: transactions and request parameters *)

\* A float64 amount is modelled by its number of hundredths, an integer k
\* standing for k/100; the amounts drawn are those for which the float
\* product amount*100 is exactly k.

\* NewTransaction as it would be with "&&" for "||".
NewTransactionBothNeeded(c, amount) ==
    IF IsNil(c) /\ amount = 0 THEN Nil
    ELSE Ptr([customer |-> c, amount |-> amount])

\* NewTransaction(c, amount)
NewTransaction(c, amount) ==
    IF IsNil(c) \/ amount = 0 THEN Nil
    ELSE Ptr([customer |-> c, amount |-> amount])

DigitOf == <<"0", "1", "2", "3", "4", "5", "6", "7", "8", "9">>

RECURSIVE NatToStr(_)
NatToStr(n) ==
    IF n < 10 THEN <<DigitOf[n + 1]>>
    ELSE NatToStr(n \div 10) \o <<DigitOf[(n % 10) + 1]>>

\* strconv.Itoa
Itoa(n) == IF n < 0 THEN <<"-">> \o NatToStr(0 - n) ELSE NatToStr(n)

\* One element of the parameter list: fmt.Sprintf("%s=%s", k, v).
ParamEntry(k, v) == <<k, "=">> \o v

\* WithCustomerId as it would be without its test of the Id.
WithCustomerIdAlways(m, cust) == ("customer_id" :> cust.Id) @@ m

\* if t.customer.Id != "" { params["customer_id"] = t.customer.Id }
WithCustomerId(m, cust) ==
    IF cust.Id # <<>> THEN ("customer_id" :> cust.Id) @@ m ELSE m

\* The map params of requestParams, as a function from key to value.  s is
\* the Sogen, c the Config s.config points to, t a non-nil *Transaction.
requestParamsMap(s, c, t) ==
    LET cust == Deref(Deref(t).customer)
        base == [k \in {"merchant_id", "merchant_country", "amount",
                        "currency_code", "pathfile", "caddie"} |->
                    CASE k = "merchant_id" -> c.MerchantId
                      [] k = "merchant_country" -> c.MerchantCountry
                      [] k = "amount" -> Itoa(Deref(t).amount)
                      [] k = "currency_code" -> c.MerchantCurrencyCode
                      [] k = "pathfile" -> s.pathFile
                      [] k = "caddie" -> cust.Caddie]
        m1 == WithCustomerId(base, cust)
        m2 == IF ~IsNil(cust.CancelUrl)
              THEN ("cancel_return_url" :> UrlString(Deref(cust.CancelUrl))) @@ m1
              ELSE m1
        m3 == IF ~IsNil(cust.ReturnUrl)
              THEN ("normal_return_url" :> UrlString(Deref(cust.ReturnUrl))) @@ m2
              ELSE m2
    IN  m3

\* The list a range over the map m appends to, one element per key.  Go
\* leaves the order of a range over a map unspecified, so the list is
\* modelled by its content: the bag of its elements.
RangeToList(m) ==
    LET entries == {ParamEntry(k, m[k]) : k \in DOMAIN m} IN
    [e \in entries |-> Cardinality({k \in DOMAIN m : ParamEntry(k, m[k]) = e})]

\* (s *Sogen) requestParams(t)
requestParams(s, c, t) == RangeToList(requestParamsMap(s, c, t))

----------------------------------------------------------------------------
(* sogen.go: NewSogen *)

\* runtime.GOOS + "_" + runtime.GOARCH of the build
GoosGoarch == <<"linux_amd64">>

\* os.Stat(p) succeeds: the path exists ("" never does).
Stat(fsys, p) == p \in DOMAIN fsys

\* os.Create(p): the file exists and is empty.
Create(fsys, p) == (p :> <<>>) @@ fsys

\* f.Write(data) on the handle of p, positioned after what it wrote before.
WriteTo(fsys, p, data) == [fsys EXCEPT ![p] = @ \o data]

\* FileLine as it would be with the closing delimiter forgotten.
FileLineUnclosed(key, value) == <<key, "!">> \o value \o <<"\n">>

\* One line of a generated file: "KEY!value!\n".
FileLine(key, value) == <<key, "!">> \o value \o <<"!", "\n">>

\* The fields NewSogen computes from the (trimmed) Config c.  The field
\* config is the pointer c itself: the Config object held in conf.
SogenFields(c) ==
    LET base == PathJoin(<<c.MerchantsRootDir, c.MerchantId>>) IN
    [merchantBaseDir |-> base,
     certificatePrefix |-> PathJoin(<<base, <<"certif">>>>),
     parametersPrefix |-> PathJoin(<<base, <<"parcom">>>>),
     parametersSogenActif |-> PathJoin(<<base, <<"parcom", ".", "sogenactif">>>>),
     pathFile |-> PathJoin(<<base, <<"pathfile">>>>),
     requestFile |-> PathJoin(<<c.LibraryPath, GoosGoarch, <<"request">>>>),
     responseFile |-> PathJoin(<<c.LibraryPath, GoosGoarch, <<"response">>>>)]

\* certFile of NewSogen
CertFile(s, c) ==
    Concat(<<s.certificatePrefix, <<".">>, c.MerchantCountry, <<".">>,
             c.MerchantId, <<".">>, <<"php">>>>)

\* parmcom of NewSogen
ParmcomFile(s, c) == Concat(<<s.parametersPrefix, <<".">>, c.MerchantId>>)

PathfileText(s, c) ==
    Concat(<<FileLine("DEBUG", IF c.Debug THEN <<"YES">> ELSE <<"NO">>),
             FileLine("D_LOGO", c.LogoPath),
             FileLine("F_CERTIFICATE", s.certificatePrefix),
             FileLine("F_CTYPE", <<"php">>),
             FileLine("F_PARAM", s.parametersPrefix),
             FileLine("F_DEFAULT", s.parametersSogenActif)>>)

ParmcomText(c) ==
    Concat(<<FileLine("LOGO", <<"/bf/chrome/common/logo.png">>),
             FileLine("CANCEL_URL", FmtUrl(c.CancelUrl)),
             FileLine("RETURN_URL", FmtUrl(c.ReturnUrl))>>)

AutoResponseText(c) == FileLine("AUTO_REPONSE_URL", FmtUrl(c.AutoResponseUrl))

SogenactifText(c) ==
    Concat(<<FileLine("ADVERT", <<"sg.gif">>),
             FileLine("BGCOLOR", <<"ffffff">>),
             FileLine("BLOCK_ALIGN", <<"center">>),
             FileLine("BLOCK_ORDER", <<"1,2,3,4,5,6,7,8">>),
             FileLine("CONDITION", <<"SSL">>),
             FileLine("CURRENCY", <<"978">>),
             FileLine("HEADER_FLAG", <<"yes">>),
             FileLine("LANGUAGE", c.MerchantCountry),
             FileLine("LOGO2", <<"sogenactif.gif">>),
             FileLine("MERCHANT_COUNTRY", c.MerchantCountry),
             FileLine("MERCHANT_LANGUAGE", c.MerchantCountry),
             FileLine("PAYMENT_MEANS", <<"CB,2,VISA,2,MASTERCARD,2,PAYLIB,2">>),
             FileLine("TARGET", <<"_top">>),
             FileLine("TEXTCOLOR", <<"000000">>)>>)

\* The calls of NewSogen that the operating system may fail.
IOOps ==
    {"create_pathfile", "write_pathfile", "create_parmcom", "write_parmcom",
     "write_auto", "create_sogenactif", "write_sogenactif"}

\* The second half of NewSogen, from "Write pathfile" on: c is the trimmed
\* Config, s the Sogen, faults the calls that fail if they are made (a
\* failed Create makes no file, a failed Write writes nothing).  created
\* lists the paths os.Create was called on with success, failed the calls
\* that were made and failed.
WriteFiles(s, c, fsys, faults) ==
    LET parmcom == ParmcomFile(s, c)
        auto == ~IsNil(c.AutoResponseUrl)
        ret(sp, e, f, cr, made) ==
            [s |-> sp, err |-> e, c |-> Ptr(c), fs |-> f, created |-> cr,
             failed |-> faults \cap made]
        fs1 == Create(fsys, s.pathFile)
        fs2 == WriteTo(fs1, s.pathFile, PathfileText(s, c))
        fs3 == Create(fs2, parmcom)
        fs4 == IF "write_parmcom" \in faults THEN fs3
               ELSE WriteTo(fs3, parmcom, ParmcomText(c))
        fs5 == IF ~auto \/ "write_auto" \in faults THEN fs4
               ELSE WriteTo(fs4, parmcom, AutoResponseText(c))
        \* err after the writes to parmcom: the second Write assigns it again
        err5 == IF auto THEN "write_auto" \in faults ELSE "write_parmcom" \in faults
        fs6 == Create(fs5, s.parametersSogenActif)
        fs7 == WriteTo(fs6, s.parametersSogenActif, SogenactifText(c))
        m1 == {"create_pathfile"}
        m2 == m1 \cup {"write_pathfile"}
        m3 == m2 \cup {"create_parmcom"}
        m5 == m3 \cup {"write_parmcom"} \cup (IF auto THEN {"write_auto"} ELSE {})
        m6 == m5 \cup {"create_sogenactif"}
        m7 == m6 \cup {"write_sogenactif"}
        two == <<s.pathFile, parmcom>>
        three == <<s.pathFile, parmcom, s.parametersSogenActif>>
    IN  IF "create_pathfile" \in faults THEN ret(Nil, "io", fsys, <<>>, m1)
        ELSE IF "write_pathfile" \in faults THEN ret(Nil, "io", fs1, <<s.pathFile>>, m2)
        ELSE IF "create_parmcom" \in faults THEN ret(Nil, "io", fs2, <<s.pathFile>>, m3)
        ELSE IF err5 THEN ret(Nil, "io", fs5, two, m5)
        ELSE IF "create_sogenactif" \in faults THEN ret(Nil, "io", fs5, two, m6)
        ELSE IF "write_sogenactif" \in faults THEN ret(Nil, "io", fs6, three, m7)
        ELSE ret(Ptr(s), "", fs7, three, m7)

\* The errors NewSogen returns from its checks, before it writes.
PreconditionErrors ==
    {"nil config", "missing merchant ID", "missing merchant root directory",
     "bad library_path", "request binary", "response binary",
     "missing certificate directory", "missing certificate file"}

\* FailedCheck as it would be with the pathfile created before the checks.
FailedCheckAfterCreate(e, c, fsys) ==
    [s |-> Nil, err |-> e, c |-> c, fs |-> Create(fsys, <<"pathfile">>),
     created |-> <<>>, failed |-> {}]

\* A return of NewSogen from one of its checks, "return nil, errors.New(e)":
\* c is the Config pointer as the call leaves it, fsys the filesystem.
FailedCheck(e, c, fsys) ==
    [s |-> Nil, err |-> e, c |-> c, fs |-> fsys, created |-> <<>>, failed |-> {}]

\* NewSogen(c) on the filesystem fsys: the *Sogen and the error returned
\* ("" for nil), the Config as the call leaves it, the filesystem after the
\* call and the files it created.
NewSogen(c, fsys, faults) ==
    IF IsNil(c) THEN FailedCheck("nil config", c, fsys)
    ELSE LET c1 == [Deref(c) EXCEPT !.MerchantId = Trim(@)]
             c2 == [c1 EXCEPT !.MerchantsRootDir = Trim(@)]
             s == SogenFields(c2)
             fail(e, cc) == FailedCheck(e, Ptr(cc), fsys)
         IN  IF c1.MerchantId = <<>> THEN fail("missing merchant ID", c1)
             ELSE IF c2.MerchantsRootDir = <<>>
                  THEN fail("missing merchant root directory", c2)
             ELSE IF ~Stat(fsys, c2.LibraryPath) THEN fail("bad library_path", c2)
             ELSE IF ~Stat(fsys, s.requestFile) THEN fail("request binary", c2)
             ELSE IF ~Stat(fsys, s.responseFile) THEN fail("response binary", c2)
             ELSE IF ~Stat(fsys, s.merchantBaseDir)
                  THEN fail("missing certificate directory", c2)
             ELSE IF ~Stat(fsys, CertFile(s, c2))
                  THEN fail("missing certificate file", c2)
             ELSE WriteFiles(s, c2, fsys, faults)

----------------------------------------------------------------------------
(* sogen.go: Checkout and HandlePayment *)

RECURSIVE FprintfNoArgs(_)
\* fmt.Fprintf(w, format) with no operand: what is written.  "%%" writes
\* "%", a "%" that ends the format writes "%!(NOVERB)", and a "%" followed
\* by a verb byte writes "%!", the verb and "(MISSING)".  In the formats
\* drawn, the byte after a "%" is never a flag, a digit or part of a word.
FprintfNoArgs(f) ==
    IF f = <<>> THEN <<>>
    ELSE IF Head(f) # "%" THEN <<Head(f)>> \o FprintfNoArgs(Tail(f))
    ELSE IF Len(f) = 1 THEN <<"%!(NOVERB)">>
    ELSE IF f[2] = "%" THEN <<"%">> \o FprintfNoArgs(SubSeq(f, 3, Len(f)))
    ELSE <<"%!", f[2], "(MISSING)">> \o FprintfNoArgs(SubSeq(f, 3, Len(f)))

\* What a call that panicked leaves: w holds what was written before.
Panicked(w) == [panic |-> TRUE, w |-> w, ret |-> Nil]
Returned(w, ret) == [panic |-> FALSE, w |-> w, ret |-> ret]

\* (s *Sogen) Checkout(t, w), out being the request binary's standard
\* output ("" when it could not be run): what is written to w, or a panic.
\* Go's res[1], res[2], res[3] are res[2], res[3], res[4] here.
Checkout(s, c, t, out) ==
    IF IsNil(t) \/ IsNil(Deref(t).customer) THEN Panicked(<<>>)
    ELSE LET res == Split(out, "!") IN
         IF Len(res) < 4 THEN Panicked(<<>>)
         ELSE LET code == res[2]
                  err == res[3]
                  body == res[4]
              IN  IF code = <<>> /\ err = <<>>
                  THEN Returned(<<"error: request executable not found!">>, Nil)
                  ELSE IF code # <<"0">>
                  THEN Returned(<<"error using API: ">> \o err, Nil)
                  ELSE Returned(FprintfNoArgs(err) \o FprintfNoArgs(body), Nil)

IsDigit(b) == \E i \in 1..10 : DigitOf[i] = b
DigitVal(b) == (CHOOSE i \in 1..10 : DigitOf[i] = b) - 1

RECURSIVE Atoi(_)
\* The value of a string of digits, -1 when a byte is no digit or the
\* string is empty.
Atoi(d) ==
    IF d = <<>> THEN -1
    ELSE IF ~IsDigit(d[Len(d)]) THEN -1
    ELSE IF Len(d) = 1 THEN DigitVal(d[1])
    ELSE LET hi == Atoi(SubSeq(d, 1, Len(d) - 1)) IN
         IF hi < 0 THEN -1 ELSE 10 * hi + DigitVal(d[Len(d)])

\* strconv.ParseFloat(f, 32) on strings of digits and letters: the value,
\* or an error when a byte is no digit.
ParseFloat(f) ==
    IF Atoi(f) < 0 THEN [err |-> TRUE, v |-> 0] ELSE [err |-> FALSE, v |-> Atoi(f)]

\* The value built by formatToRFC3339: "YYYY-MM-DDThh:mm:ss" and the offset.
Rfc3339Text(dt, offset) ==
    Concat(<<SubSeq(dt, 1, 4), <<"-">>, SubSeq(dt, 5, 6), <<"-">>, SubSeq(dt, 7, 8),
             <<"T">>, SubSeq(dt, 9, 10), <<":">>, SubSeq(dt, 11, 12), <<":">>,
             SubSeq(dt, 13, 14), offset>>)

\* formatToRFC3339(dt, offset): slicing a dt shorter than 14 bytes panics;
\* time.Parse accepts digits in range (the dates drawn have no day beyond
\* the 28th, so the length of the month does not matter).
formatToRFC3339(dt, offset) ==
    IF Len(dt) < 14 THEN [panic |-> TRUE, err |-> FALSE, t |-> Nil, text |-> <<>>]
    ELSE LET y == Atoi(SubSeq(dt, 1, 4))
             mo == Atoi(SubSeq(dt, 5, 6))
             d == Atoi(SubSeq(dt, 7, 8))
             h == Atoi(SubSeq(dt, 9, 10))
             mi == Atoi(SubSeq(dt, 11, 12))
             sec == Atoi(SubSeq(dt, 13, 14))
             ok == /\ y >= 0
                   /\ mo \in 1..12
                   /\ d \in 1..31
                   /\ h \in 0..23
                   /\ mi \in 0..59
                   /\ sec \in 0..59
         IN  IF ok
             THEN [panic |-> FALSE, err |-> FALSE, text |-> Rfc3339Text(dt, offset),
                   t |-> Ptr([year |-> y, month |-> mo, day |-> d, hour |-> h,
                              min |-> mi, sec |-> sec, offset |-> offset])]
             ELSE [panic |-> FALSE, err |-> TRUE, text |-> Rfc3339Text(dt, offset),
                   t |-> Nil]

PlusOne == <<"+", "0", "1", ":", "0", "0">>

\* The Payment literal of HandlePayment; Go's v[i] is v[i + 1] here.
PaymentOf(v, amount, tDate, pDateTime) ==
    [MerchantId |-> v[1], MerchantCountry |-> v[2], Amount |-> amount,
     TransactionId |-> v[4], PaymentMeans |-> v[5],
     TransmissionDate |-> tDate, PaymentDate |-> pDateTime,
     PaymentCertificate |-> v[9], ResponseCode |-> v[10],
     AuthorizationId |-> v[11], CurrencyCode |-> v[12], CardNumber |-> v[13],
     CVVFlag |-> v[14], CVVResponseCode |-> v[15], BankResponseCode |-> v[16],
     ComplementaryCode |-> v[17], ComplementaryInfo |-> v[18],
     ReturnContext |-> v[19], Caddie |-> v[20], ReceiptComplement |-> v[21],
     MerchantLanguage |-> v[22], Language |-> v[23], CustomerId |-> v[24],
     CustomerEmail |-> v[25], CustomerIpAddress |-> v[26], CaptureDay |-> v[27],
     CaptureMode |-> v[28], Data |-> v[29], OrderValidity |-> v[30],
     ScoreValue |-> v[31], ScoreColor |-> v[32], ScoreInfo |-> v[33],
     ScoreThreshold |-> v[34], ScoreProfile |-> v[35]]

\* The branch of HandlePayment taken when the code is "0": w0 is what w
\* holds already, v is res[3:].  An index beyond the end of v panics.
PaymentBranch(w0, v) ==
    IF Len(v) < 3 THEN Panicked(w0)
    ELSE LET amount == ParseFloat(v[3]) IN
    IF amount.err
    THEN Returned(w0 \o FprintfNoArgs(<<"amount conversion error: ">> \o v[3]), Nil)
    ELSE IF Len(v) < 6 THEN Panicked(w0)
    ELSE LET tDate == formatToRFC3339(v[6], PlusOne) IN
    IF tDate.panic THEN Panicked(w0)
    ELSE IF tDate.err
    THEN Returned(w0 \o FprintfNoArgs(<<"transmission date conversion error: ">>
                                          \o tDate.text), Nil)
    ELSE IF Len(v) < 8 THEN Panicked(w0)
    ELSE LET pDateTime == formatToRFC3339(v[8] \o v[7], PlusOne) IN
    IF pDateTime.panic THEN Panicked(w0)
    ELSE IF pDateTime.err
    THEN Returned(w0 \o FprintfNoArgs(<<"payment datetime conversion error: ">>
                                          \o pDateTime.text), Nil)
    ELSE IF Len(v) < 35 THEN Panicked(w0)
    ELSE Returned(w0, Ptr(PaymentOf(v, amount.v, Deref(tDate.t), Deref(pDateTime.t))))

\* (s *Sogen) HandlePayment(w, r) for a non-nil r, out being the response
\* binary's standard output ("" when it could not be run).
HandlePayment(s, out) ==
    LET res == Split(out, "!") IN
    IF Len(res) < 3 THEN Panicked(<<>>)
    ELSE LET code == res[2]
             err == res[3]
         IN  IF code = <<>> /\ err = <<>>
             THEN Returned(<<"error: request executable not found!">>, Nil)
             ELSE IF code # <<"0">>
             THEN Returned(<<"error using API: ">> \o err, Nil)
             ELSE PaymentBranch(FprintfNoArgs(err), SubSeq(res, 4, Len(res)))


\* The labels of the format of Payment.String, in the order of its verbs.
StringLabels ==
    <<"Merchant ID", "Merchant Country", "Amount", "Transaction ID",
      "Payment Means", "Transmission Date", "Payment Date", "Response Code",
      "Payment Certificate", "Authorization ID", "Currency Code", "Card Number",
      "CVV Flag", "CVV Response Code", "Bank Response Code",
      "Complementary Code", "Complementary Info", "Return Context", "Caddie",
      "Receipt Complement", "Merchant Language", "Language", "Customer ID",
      "Customer Email", "Customer IP Address", "Capture Day", "Capture Mode",
      "Data", "Order Validity", "Score Value", "Score Color", "Score Info",
      "Score Threshold", "Score Profile">>

\* The arguments of the Sprintf call of Payment.String, in their order.
StringArgs ==
    <<"MerchantId", "MerchantCountry", "Amount", "TransactionId", "PaymentMeans",
      "TransmissionDate", "PaymentDate", "PaymentCertificate", "ResponseCode",
      "AuthorizationId", "CurrencyCode", "CardNumber", "CVVFlag",
      "CVVResponseCode", "BankResponseCode", "ComplementaryCode",
      "ComplementaryInfo", "ReturnContext", "Caddie", "ReceiptComplement",
      "MerchantLanguage", "Language", "CustomerId", "CustomerEmail",
      "CustomerIpAddress", "CaptureDay", "CaptureMode", "Data", "OrderValidity",
      "ScoreValue", "ScoreColor", "ScoreInfo", "ScoreThreshold", "ScoreProfile">>

\* The verbs of the format before which a rule of dashes is printed.
RuleBefore == {6, 10, 18, 23, 26, 30}

\* n in decimal on at least width digits.
Pad(n, width) ==
    LET d == Itoa(n) IN
    [i \in 1..(IF Len(d) < width THEN width - Len(d) ELSE 0) |-> "0"] \o d

\* %.2f of an amount kept in hundredths.
FormatFloat2(a) ==
    LET abs == IF a < 0 THEN 0 - a ELSE a IN
    (IF a < 0 THEN <<"-">> ELSE <<>>) \o Itoa(abs \div 100) \o <<".">> \o Pad(abs % 100, 2)

\* %s of a time.Time, its String method: date, time, numeric offset and the
\* zone's abbreviation.  time.Parse gives the time the local zone when the
\* offset is the local one at that instant, and a zone with no name, printed
\* as the numeric offset, otherwise.
TimeString(t, zone) ==
    Concat(<<Pad(t.year, 4), <<"-">>, Pad(t.month, 2), <<"-">>, Pad(t.day, 2), <<" ">>,
             Pad(t.hour, 2), <<":">>, Pad(t.min, 2), <<":">>, Pad(t.sec, 2), <<" ">>,
             SelectSeq(t.offset, LAMBDA b : b # ":"), <<" ">>, zone>>)

\* What a verb of Payment.String prints for the field f of p.
FormatField(p, f, zone) ==
    CASE f = "Amount" -> FormatFloat2(p.Amount)
      [] f = "TransmissionDate" -> TimeString(p.TransmissionDate, zone)
      [] f = "PaymentDate" -> TimeString(p.PaymentDate, zone)
      [] OTHER -> p[f]

RECURSIVE StringFrom(_, _, _)
\* The text of Payment.String from its i-th verb on: the i-th verb of the
\* format prints the i-th argument.
StringFrom(p, i, zone) ==
    IF i > Len(StringLabels) THEN <<>>
    ELSE Concat(<<IF i \in RuleBefore
                  THEN <<"----------------------------------------", "\n">>
                  ELSE <<>>,
                  <<StringLabels[i], ": ">>,
                  FormatField(p, StringArgs[i], zone),
                  IF i < Len(StringLabels) THEN <<"\n">> ELSE <<>>,
                  StringFrom(p, i + 1, zone)>>)

\* (p *Payment) String()
PaymentString(p, zone) ==
    <<"========================================", "\n">> \o StringFrom(p, 1, zone)

\* fmt.Printf("%v\n", p) of the handlers: the String method of a non-nil p.
PrintfPayment(p, zone) ==
    (IF IsNil(p) THEN <<"<nil>">> ELSE PaymentString(Deref(p), zone)) \o <<"\n">>

----------------------------------------------------------------------------
(* The inputs the calls are made with *)

S_m == <<"m">>
S_lib == <<"lib">>
S_fr == <<"fr">>
S_7 == <<"7">>
S_sogenactif == <<"sogenactif">>

VarRef(name) == <<"$", "{">> \o name \o <<"}">>
VarA == <<"A">>
VarB == <<"B">>

\* The values an environment variable may hold: unset, plain text, and a
\* text that itself looks like a reference.
EnvValues == {<<>>, <<"x">>, VarRef(VarB)}
Envs == [{VarA, VarB} -> EnvValues]

\* The paths of a complete installation for merchant id: the library with
\* both binaries, the merchant directory and its certificate.
LibraryPaths ==
    {S_lib, S_lib \o <<"/">> \o GoosGoarch,
     S_lib \o <<"/">> \o GoosGoarch \o <<"/", "request">>,
     S_lib \o <<"/">> \o GoosGoarch \o <<"/", "response">>}
MerchantDir(id) == S_m \o <<"/">> \o id
MerchantCert(id) ==
    MerchantDir(id) \o <<"/", "certif", ".">> \o S_fr \o <<".">> \o id \o <<".", "php">>
MerchantPaths(id) == {S_m, MerchantDir(id), MerchantCert(id)}

\* Files left by an earlier run, with other content.
StalePaths ==
    {MerchantDir(S_7) \o <<"/", "pathfile">>,
     MerchantDir(S_7) \o <<"/", "parcom", ".", "7">>,
     MerchantDir(S_7) \o <<"/", "parcom", ".", "sogenactif">>}

FsOf(paths, stale) ==
    [p \in paths \cup stale |-> IF p \in stale THEN <<"old">> ELSE <<>>]

CompletePaths == LibraryPaths \cup MerchantPaths(S_7) \cup MerchantPaths(S_sogenactif)

\* The filesystems the program may start on: complete, complete with stale
\* generated files, and with one of the required paths missing.
InitialFs ==
    {FsOf(CompletePaths, {}), FsOf(CompletePaths, StalePaths),
     FsOf(CompletePaths \ LibraryPaths, {}),
     FsOf(CompletePaths \ {S_lib \o <<"/">> \o GoosGoarch \o <<"/", "request">>}, {}),
     FsOf(CompletePaths \ {S_lib \o <<"/">> \o GoosGoarch \o <<"/", "response">>}, StalePaths),
     FsOf(LibraryPaths \cup {S_m}, {}),
     FsOf(CompletePaths \ {MerchantCert(S_7), MerchantCert(S_sogenactif)}, StalePaths)}

UrlOf(path) == Ptr([Path |-> path])

\* The Configs a caller builds by hand.
Configs ==
    {[Debug |-> IsNil(cancel), LogoPath |-> <<"/", "logo", "/">>, LibraryPath |-> lib,
      MerchantsRootDir |-> root, MediaPath |-> <<"media">>, MerchantId |-> id,
      MerchantCountry |-> S_fr, MerchantCurrencyCode |-> <<"978">>,
      AutoResponseUrl |-> auto, CancelUrl |-> cancel,
      ReturnUrl |-> UrlOf(<<"/", "r">>)] :
        lib \in {S_lib, <<>>},
        root \in {S_m, <<" ">> \o S_m \o <<"/", " ">>, <<" ">>},
        id \in {S_7, <<" ">> \o S_7 \o <<" ">>, <<>>, S_sogenactif},
        auto \in {Nil, UrlOf(<<"/", "a">>)},
        cancel \in {Nil, UrlOf(<<"/", "c", " ", "{">>)}}

\* The config files LoadConfig is given: every option defined, with and
\* without references to environment variables, and files with an option
\* missing or malformed.
ConfigFiles ==
    {[debug |-> dbg, logo_path |-> Ptr(logo), merchants_rootdir |-> Ptr(S_m),
      media_path |-> Ptr(<<"media">>), merchant_id |-> id,
      merchant_country |-> Ptr(S_fr), merchant_currency_code |-> Ptr(<<"978">>),
      cancel_url |-> Ptr(cancel), return_url |-> Ptr(<<"/", "r">>),
      library_path |-> Ptr(S_lib), auto_response_url |-> Ptr(<<"/", "a">>)] :
        dbg \in {Ptr(<<"true">>), Ptr(<<"maybe">>)},
        logo \in {<<"/", "logo", "/">>, VarRef(VarA) \o <<"/", "logo", "/">>},
        id \in {Ptr(S_7), Nil},
        cancel \in {<<"/", "c">>, <<"/">> \o VarRef(VarA) \o <<"/", "c">>,
                    <<"/">> \o VarRef(VarB) \o <<"+", "c">>, <<"/", "c", "%">>}}

MaxFaults == 1
FaultSets == {f \in SUBSET IOOps : Cardinality(f) <= MaxFaults}

----------------------------------------------------------------------------
(* Start-up: LoadConfig or a hand-built Config, then NewSogen *)

NoCall == [op |-> "none"]

\* The environments the program is started in.
StartEnvs == {e \in Envs : e[VarB] = <<"x">>}

Init ==
    /\ env \in StartEnvs
    /\ fs \in InitialFs
    /\ conf = Nil
    /\ loaded = Nil
    /\ sogen = Nil
    /\ txn = Nil
    /\ calls = <<>>
    /\ last = NoCall

\* conf, err := LoadConfig(path), the first statement of main
LoadConfigCall ==
    \E file \in ConfigFiles :
        LET r == LoadConfig(file, env) IN
        /\ last.op = "none"
        /\ conf' = r.c
        /\ loaded' = IF r.err THEN Nil ELSE Ptr(file)
        /\ sogen' = Nil
        /\ last' = [op |-> "LoadConfig", file |-> file, err |-> r.err]
        /\ UNCHANGED <<calls, env, fs, txn>>

\* conf := &sogenactif.Config{...}, or a nil pointer, of a caller that
\* does not use LoadConfig
MakeConfig ==
    \E c \in {Nil} \cup {Ptr(x) : x \in Configs} :
        /\ last.op = "none"
        /\ conf' = c
        /\ loaded' = Nil
        /\ sogen' = Nil
        /\ last' = [op |-> "MakeConfig"]
        /\ UNCHANGED <<calls, env, fs, txn>>

\* s, err := NewSogen(conf), after the Config was obtained; main exits when
\* it returns an error, and a caller may repeat a call that succeeded.
NewSogenCall ==
    \E faults \in FaultSets :
        LET r == NewSogen(conf, fs, faults) IN
        /\ \/ last.op \in {"LoadConfig", "MakeConfig"}
           \/ last.op = "NewSogen" /\ last.err = ""
        /\ conf' = r.c
        /\ fs' = r.fs
        /\ sogen' = r.s
        /\ last' = [op |-> "NewSogen", err |-> r.err, created |-> r.created,
                    failed |-> r.failed, before |-> fs, arg |-> conf]
        /\ UNCHANGED <<calls, env, loaded, txn>>

Next == LoadConfigCall \/ MakeConfig \/ NewSogenCall

Spec == Init /\ [][Next]_vars

----------------------------------------------------------------------------
(* Properties of the start-up *)

Range(seq) == {seq[i] : i \in 1..Len(seq)}

NewSogenSucceeded == last.op = "NewSogen" /\ last.err = ""

\* The lines of a text, each without its final "\n".
LinesOf(text) ==
    LET parts == Split(text, "\n") IN SubSeq(parts, 1, Len(parts) - 1)

\* Every line of text is KEY!value! and is ended by "\n".
WellDelimited(text) ==
    /\ text = <<>> \/ text[Len(text)] = "\n"
    /\ \A i \in 1..Len(LinesOf(text)) :
          LET f == Split(LinesOf(text)[i], "!") IN
          Len(f) = 3 /\ f[1] # <<>> /\ f[3] = <<>>

\* What parcom.<merchant_id> holds when both of its writes were made.
FullParmcomText(c) ==
    ParmcomText(c) \o
        (IF IsNil(c.AutoResponseUrl) THEN <<>> ELSE AutoResponseText(c))

\* C2: when NewSogen succeeds, pathfile, parcom.<merchant_id> and
\* parcom.sogenactif exist in the merchant directory and their content is
\* the one the Config determines, whatever they held before (and so the
\* same after a second call).
NewSogenFilesDeterminedByConfig ==
    NewSogenSucceeded =>
        LET c == Deref(conf)
            dir == PathJoin(<<c.MerchantsRootDir, c.MerchantId>>)
            pathfile == dir \o <<"/", "pathfile">>
            parmcom == dir \o <<"/", "parcom", ".">> \o c.MerchantId
            sogenactif == dir \o <<"/", "parcom", ".", "sogenactif">>
        IN  /\ {pathfile, parmcom, sogenactif} \subseteq DOMAIN fs
            /\ fs[pathfile] = PathfileText(Deref(sogen), c)
            /\ fs[sogenactif] = SogenactifText(c)
            /\ parmcom # sogenactif => fs[parmcom] = FullParmcomText(c)

\* C3: when NewSogen returns an error from one of its checks (nil config,
\* blank MerchantId or MerchantsRootDir, missing library path, binary,
\* merchant directory or certificate), it returns a nil Sogen and the
\* filesystem is as it was before the call: no generated file was created
\* or modified.
NewSogenChecksBeforeWriting ==
    (last.op = "NewSogen" /\ last.err \in PreconditionErrors) =>
        /\ IsNil(sogen)
        /\ fs = last.before
        /\ last.created = <<>>

\* A call failed on the missing certificate while generated files of an
\* earlier run were there to be overwritten.
NewSogenFailedCheckWitness ==
    /\ last.op = "NewSogen"
    /\ last.err = "missing certificate file"
    /\ StalePaths \subseteq DOMAIN fs

\* C4, as stated: a successful NewSogen call writes four files.
NewSogenWritesFourFiles ==
    NewSogenSucceeded => Cardinality(Range(last.created)) = 4

\* C4, amended: a successful NewSogen call creates exactly pathfile,
\* parcom.<merchant_id> and parcom.sogenactif (three files, two when the
\* merchant id is "sogenactif"), every line in them is KEY!value!, and no
\* other file, the certificate included, is created or modified.
NewSogenWritesThreeFiles ==
    NewSogenSucceeded =>
        LET c == Deref(conf)
            s == Deref(sogen)
            made == Range(last.created)
            cert == s.merchantBaseDir \o <<"/", "certif", ".">> \o c.MerchantCountry
                        \o <<".">> \o c.MerchantId \o <<".", "php">>
        IN  /\ made = {s.merchantBaseDir \o <<"/", "pathfile">>,
                       s.merchantBaseDir \o <<"/", "parcom", ".">> \o c.MerchantId,
                       s.merchantBaseDir \o <<"/", "parcom", ".", "sogenactif">>}
            /\ Cardinality(made) = IF c.MerchantId = S_sogenactif THEN 2 ELSE 3
            /\ \A p \in made : p \in DOMAIN fs /\ WellDelimited(fs[p])
            /\ cert \notin made
            /\ DOMAIN fs = DOMAIN last.before \cup made
            /\ \A p \in DOMAIN last.before \ made : fs[p] = last.before[p]

\* A call succeeded and created three distinct files.
NewSogenThreeFilesWitness ==
    NewSogenSucceeded /\ Cardinality(Range(last.created)) = 3

\* The filesystem fsys holds what the config file names: the library with
\* both binaries, the merchant directory and the merchant certificate.
InstallationComplete(file, fsys) ==
    LET lib == Deref(file.library_path)
        dir == PathJoin(<<Deref(file.merchants_rootdir), Deref(file.merchant_id)>>)
    IN  /\ Stat(fsys, lib)
        /\ Stat(fsys, PathJoin(<<lib, GoosGoarch, <<"request">>>>))
        /\ Stat(fsys, PathJoin(<<lib, GoosGoarch, <<"response">>>>))
        /\ Stat(fsys, dir)
        /\ Stat(fsys, dir \o <<"/", "certif", ".">> \o Deref(file.merchant_country)
                          \o <<".">> \o Deref(file.merchant_id) \o <<".", "php">>)

\* C5: NewSogen called on the Config that LoadConfig returned for a file
\* that defines every option, on a filesystem with the library binaries,
\* the merchant directory and the certificate, and with no failing I/O,
\* returns a Sogen and no error.
StartupSequenceWorks ==
    (/\ last.op = "NewSogen"
     /\ ~IsNil(loaded)
     /\ last.failed = {}
     /\ InstallationComplete(Deref(loaded), last.before))
        => last.err = "" /\ ~IsNil(sogen)

RECURSIVE SubstituteRefs(_, _)
\* s with every ${VARNAME} of s replaced by the value of VARNAME, and
\* nothing else changed.
SubstituteRefs(s, e) ==
    IF s = <<>> THEN <<>>
    ELSE LET n == IF Len(s) >= 2 /\ s[1] = "$" /\ s[2] = "{"
                  THEN NameRun(SubSeq(s, 3, Len(s))) ELSE 0
             hit == n >= 1 /\ Len(s) >= n + 3 /\ s[n + 3] = "}"
         IN  IF hit
             THEN Getenv(e, SubSeq(s, 3, n + 2))
                      \o SubstituteRefs(SubSeq(s, n + 4, Len(s)), e)
             ELSE <<Head(s)>> \o SubstituteRefs(Tail(s), e)

\* The Config field each string option of the file is loaded into.
FieldOfOption ==
    [logo_path |-> "LogoPath", merchants_rootdir |-> "MerchantsRootDir",
     media_path |-> "MediaPath", merchant_id |-> "MerchantId",
     merchant_country |-> "MerchantCountry",
     merchant_currency_code |-> "MerchantCurrencyCode",
     cancel_url |-> "CancelUrl", return_url |-> "ReturnUrl"]

\* C10: after a successful LoadConfig, every field whose option holds a
\* ${VARNAME} in the file holds the option's value with the variables
\* substituted.
LoadConfigSubstitutesEveryField ==
    (last.op = "LoadConfig" /\ ~last.err) =>
        \A opt \in DOMAIN FieldOfOption :
            LET text == Deref(last.file[opt])
                field == Deref(conf)[FieldOfOption[opt]]
            IN  FindAllVars(text) # <<>> =>
                    IF opt \in {"cancel_url", "return_url"}
                    THEN Deref(field).Path = SubstituteRefs(text, env)
                    ELSE field = SubstituteRefs(text, env)

----------------------------------------------------------------------------
(* Serving one request: the handlers of main call NewTransaction and       *)
(* Checkout, or HandlePayment, on the Sogen that NewSogen returned.        *)

\* The Configs the server is started with.
ServeConfigs ==
    {c \in Configs : /\ c.LibraryPath = S_lib
                     /\ c.MerchantsRootDir = S_m
                     /\ c.MerchantId \in {S_7, S_sogenactif}
                     /\ IsNil(c.AutoResponseUrl)}

Customers ==
    {[Id |-> id, Caddie |-> IF IsNil(ret) THEN <<>> ELSE <<"cart">>,
      CancelUrl |-> cancel, ReturnUrl |-> ret] :
        id \in {<<>>, <<"johndoe">>},
        cancel \in {Nil, UrlOf(<<"/", "cc", " ", "{">>)},
        ret \in {Nil, UrlOf(<<"/", "rr">>)}}

\* Amounts, in hundredths: 0, 0.25, 1.00 and -1.00.
Amounts == {0, 25, 100, -100}

\* What the request binary may print: code, error and body between "!",
\* and outputs that are cut short.
RequestOutputs ==
    {<<"!">> \o code \o <<"!">> \o err \o <<"!">> \o body \o <<"!">> :
        code \in {<<>>, <<"0">>, <<"1", "7">>},
        err \in {<<>>, <<"dbg">>, <<"%", "d">>},
        body \in {<<"form">>, <<"1", "0", "0", "%">>}}
    \cup {<<>>, <<"!", "0", "!">>, <<"x">>}

\* The number of data fields HandlePayment reads after code and error.
NumPaymentFields == 35

FieldText ==
    <<"v0", "v1", "v2", "v3", "v4", "v5", "v6", "v7", "v8", "v9", "v10", "v11",
      "v12", "v13", "v14", "v15", "v16", "v17", "v18", "v19", "v20", "v21",
      "v22", "v23", "v24", "v25", "v26", "v27", "v28", "v29", "v30", "v31",
      "v32", "v33", "v34">>

\* The first n data fields of a response: amount, transmission date,
\* payment time and payment date at Go's v[2], v[5], v[6] and v[7].
PaymentFields(amount, tdate, ptime, pdate, n) ==
    [i \in 1..n |-> CASE i = 3 -> amount
                      [] i = 6 -> tdate
                      [] i = 7 -> ptime
                      [] i = 8 -> pdate
                      [] OTHER -> <<FieldText[i]>>]

ResponseOutput(code, err, v) == JoinWith(<<<<>>, code, err>> \o v \o <<<<>>>>, "!")

GoodDate == <<"2", "0", "1", "3", "0", "1", "0", "2">>
GoodTime == <<"0", "3", "0", "4", "0", "5">>

\* What the response binary may print.
ResponseOutputs ==
    {ResponseOutput(code, <<>>, PaymentFields(<<"4", "9", "9">>, GoodDate \o GoodTime,
                                              GoodTime, GoodDate, NumPaymentFields)) :
        code \in {<<>>, <<"1", "7">>}}
    \cup {ResponseOutput(<<"0">>, err, PaymentFields(amount, tdate, pdt[2], pdt[1], n)) :
            err \in {<<>>, <<"dbg">>},
            amount \in {<<"4", "9", "9">>, <<"4", "x">>},
            tdate \in {GoodDate \o GoodTime,
                       <<"2", "0", "1", "3", "1", "3", "0", "2">> \o GoodTime,
                       <<"2", "0", "1", "3">>},
            pdt \in {<<GoodDate, GoodTime>>,
                     <<GoodDate, <<"0", "3", "6", "0", "0", "x">>>>,
                     <<GoodDate, <<"0", "3">>>>},
            n \in {NumPaymentFields, NumPaymentFields - 1, 2, 0}}
    \cup {<<>>, <<"x">>}

ServeInit ==
    /\ env \in {e \in Envs : e[VarA] = <<"x">> /\ e[VarB] = <<"x">>}
    /\ \E c \in ServeConfigs :
          LET r == NewSogen(Ptr(c), FsOf(CompletePaths, {}), {}) IN
          /\ conf = r.c
          /\ sogen = r.s
          /\ fs = r.fs
    /\ loaded = Nil
    /\ txn = Nil
    /\ calls = <<>>
    /\ last = NoCall

\* t := sogenactif.NewTransaction(c, amount)
NewTransactionCall ==
    \E c \in {Nil} \cup {Ptr(x) : x \in Customers}, amount \in Amounts :
        /\ last.op = "none"
        /\ txn' = NewTransaction(c, amount)
        /\ last' = [op |-> "NewTransaction", c |-> c, amount |-> amount]
        /\ UNCHANGED <<calls, env, fs, conf, loaded, sogen>>

Usable(t) == ~IsNil(t) /\ ~IsNil(Deref(t).customer)

\* sogen.Checkout(t, w) on the transaction just made: the parameter list is
\* built, the request binary is run (ran is FALSE when it cannot be) and
\* its output handled.
CheckoutCall ==
    \E ran \in BOOLEAN :
        \E out \in IF ran THEN RequestOutputs ELSE {<<>>} :
            LET r == Checkout(Deref(sogen), Deref(conf), txn, out) IN
            /\ last.op = "NewTransaction"
            /\ last' = [op |-> "Checkout", t |-> txn, ran |-> ran, out |-> out,
                        params |-> IF Usable(txn)
                                   THEN requestParams(Deref(sogen), Deref(conf), txn)
                                   ELSE EmptyBag,
                        panic |-> r.panic, w |-> r.w]
            /\ UNCHANGED <<calls, env, fs, conf, loaded, sogen, txn>>

\* p := sogen.HandlePayment(w, r): r is nil or a request with a DATA form
\* value; executed tells whether the response binary was started.
HandlePaymentCall ==
    \E r \in {Nil, Ptr([DATA |-> <<"msg">>])}, ran \in BOOLEAN :
        \E out \in IF IsNil(r) \/ ~ran THEN {<<>>} ELSE ResponseOutputs :
            LET h == IF IsNil(r) THEN Returned(<<>>, Nil)
                     ELSE HandlePayment(Deref(sogen), out)
            IN  /\ last.op = "none"
                /\ last' = [op |-> "HandlePayment", r |-> r, executed |-> ~IsNil(r),
                            ran |-> ran /\ ~IsNil(r), out |-> out,
                            panic |-> h.panic, w |-> h.w, ret |-> h.ret]
                /\ UNCHANGED <<calls, env, fs, conf, loaded, sogen, txn>>

\* The zone abbreviations a parsed time may print: the numeric offset, or
\* the local zone's name.
ZoneNames == {<<"+0100">>, <<"CET">>}

\* fmt.Printf("%v\n", p) after HandlePayment has returned p.
PrintfPaymentCall ==
    \E zone \in ZoneNames :
        /\ last.op = "HandlePayment"
        /\ ~last.panic
        /\ last' = [op |-> "Printf", p |-> last.ret, zone |-> zone,
                    text |-> PrintfPayment(last.ret, zone)]
        /\ UNCHANGED <<calls, env, fs, conf, loaded, sogen, txn>>

ServeNext == NewTransactionCall \/ CheckoutCall \/ HandlePaymentCall \/ PrintfPaymentCall

SpecServe == ServeInit /\ [][ServeNext]_vars

----------------------------------------------------------------------------
(* Properties of the handlers *)

\* C1: NewTransaction(c, amount) returns nil exactly when c is nil or
\* amount is 0, and otherwise a Transaction of customer c and amount
\* amount; every non-nil Transaction has a non-nil customer and a non-zero
\* amount.
NewTransactionContract ==
    /\ last.op = "NewTransaction" =>
          /\ IsNil(txn) <=> (IsNil(last.c) \/ last.amount = 0)
          /\ ~IsNil(txn) =>
                Deref(txn).customer = last.c /\ Deref(txn).amount = last.amount
    /\ ~IsNil(txn) => ~IsNil(Deref(txn).customer) /\ Deref(txn).amount # 0

\* NewTransaction returned a Transaction for a customer and a negative
\* amount.
NewTransactionWitness ==
    /\ last.op = "NewTransaction"
    /\ ~IsNil(last.c)
    /\ last.amount < 0
    /\ ~IsNil(txn)

RECURSIVE SumOver(_, _)
SumOver(b, es) ==
    IF es = {} THEN 0
    ELSE LET e == CHOOSE x \in es : TRUE IN b[e] + SumOver(b, es \ {e})

\* The number of elements of the list b that are for key k ("k=...").
CountKey(b, k) ==
    SumOver(b, {e \in DOMAIN b : Len(e) >= 2 /\ e[1] = k /\ e[2] = "="})

RequiredKeys ==
    {"merchant_id", "merchant_country", "amount", "currency_code", "pathfile",
     "caddie"}
OptionalKeys == {"customer_id", "cancel_return_url", "normal_return_url"}

\* C6: the parameter list Checkout passes to the request binary holds
\* exactly one element for each of merchant_id, merchant_country, amount,
\* currency_code, pathfile and caddie; customer_id exactly when the
\* customer's Id is non-empty, cancel_return_url exactly when CancelUrl is
\* set, normal_return_url exactly when ReturnUrl is set, each with the
\* customer's value; and nothing else.
RequestParamsContract ==
    (last.op = "Checkout" /\ Usable(last.t)) =>
        LET b == last.params
            cust == Deref(Deref(last.t).customer)
            has(k, v) == CountKey(b, k) = 1 /\ (<<k, "=">> \o v) \in DOMAIN b
            hasnot(k) == CountKey(b, k) = 0
        IN  /\ \A k \in RequiredKeys : CountKey(b, k) = 1
            /\ has("caddie", cust.Caddie)
            /\ IF cust.Id # <<>> THEN has("customer_id", cust.Id)
               ELSE hasnot("customer_id")
            /\ IF ~IsNil(cust.CancelUrl)
               THEN has("cancel_return_url", EscapePath(Deref(cust.CancelUrl).Path))
               ELSE hasnot("cancel_return_url")
            /\ IF ~IsNil(cust.ReturnUrl)
               THEN has("normal_return_url", EscapePath(Deref(cust.ReturnUrl).Path))
               ELSE hasnot("normal_return_url")
            /\ \A e \in DOMAIN b :
                  Len(e) >= 2 /\ e[2] = "=" /\ e[1] \in RequiredKeys \cup OptionalKeys

\* Checkout ran for a customer with no Id, a cancel URL and no return URL.
RequestParamsWitness ==
    /\ last.op = "Checkout"
    /\ Usable(last.t)
    /\ LET cust == Deref(Deref(last.t).customer) IN
       /\ cust.Id = <<>>
       /\ ~IsNil(cust.CancelUrl)
       /\ IsNil(cust.ReturnUrl)
       /\ CountKey(last.params, "cancel_return_url") = 1

\* The i-th "!"-separated field of out, Go's res[i - 1]; "" when out has
\* no such field.
FieldAt(out, i) ==
    LET f == Split(out, "!") IN IF i <= Len(f) THEN f[i] ELSE <<>>

\* C7: for every output of the request binary, Checkout writes exactly one
\* of three results to w: the "not found" message when code and error are
\* both empty (no output at all included), "error using API: <error>" when
\* the code is not "0", and the debug field followed by the body field when
\* the code is "0".
CheckoutWritesOneOfThree ==
    (last.op = "Checkout" /\ Usable(last.t)) =>
        LET code == FieldAt(last.out, 2)
            err == FieldAt(last.out, 3)
            body == FieldAt(last.out, 4)
        IN  /\ ~last.panic
            /\ last.w = IF code = <<>> /\ err = <<>>
                        THEN <<"error: request executable not found!">>
                        ELSE IF code # <<"0">> THEN <<"error using API: ">> \o err
                        ELSE err \o body

\* Whether dt parses as a date: it has its 14 digits and time.Parse takes it.
DateParses(dt) == Len(dt) >= 14 /\ ~formatToRFC3339(dt, PlusOne).err

\* C8: HandlePayment returns nil without running the response binary when
\* the request is nil; for a request it returns a Payment exactly when the
\* code is "0", the amount parses as a number and both dates parse, and in
\* every other case returns nil after writing an error message to w.
HandlePaymentContract ==
    last.op = "HandlePayment" =>
        IF IsNil(last.r)
        THEN IsNil(last.ret) /\ ~last.executed /\ ~last.panic
        ELSE LET good == /\ FieldAt(last.out, 2) = <<"0">>
                         /\ ~ParseFloat(FieldAt(last.out, 6)).err
                         /\ DateParses(FieldAt(last.out, 9))
                         /\ DateParses(FieldAt(last.out, 11) \o FieldAt(last.out, 10))
             IN  /\ ~last.panic
                 /\ ~IsNil(last.ret) <=> good
                 /\ IsNil(last.ret) => last.w # <<>>

----------------------------------------------------------------------------
(* replaceEnvVars on its own: the environment and the source are drawn, and *)
(* the call is made once.                                                  *)

\* The pieces source strings are made of.
Tokens == {VarRef(VarA), VarRef(VarB), <<"x">>, <<"$", "{">>, <<"}">>}

MaxTokens == 3

RECURSIVE TokenStrings(_)
\* The strings made of at most n tokens.
TokenStrings(n) ==
    IF n = 0 THEN {<<>>}
    ELSE LET shorter == TokenStrings(n - 1) IN
         shorter \cup {t \o r : t \in Tokens, r \in shorter}

EnvInit ==
    /\ env \in Envs
    /\ fs = <<>>
    /\ conf = Nil
    /\ loaded = Nil
    /\ sogen = Nil
    /\ txn = Nil
    /\ calls = <<>>
    /\ last = NoCall

\* r, err := replaceEnvVars(src)
ReplaceEnvVarsCall ==
    \E src \in TokenStrings(MaxTokens) :
        LET r == replaceEnvVars(src, env) IN
        /\ last.op = "none"
        /\ last' = [op |-> "replaceEnvVars", src |-> src, err |-> r.err, s |-> r.s]
        /\ UNCHANGED <<calls, env, fs, conf, loaded, sogen, txn>>

EnvNext == ReplaceEnvVarsCall

SpecEnv == EnvInit /\ [][EnvNext]_vars

\* C9: when replaceEnvVars succeeds the result is the source with every
\* ${VARNAME} replaced by the value of that variable and nothing else
\* changed, whatever the values are; when a referenced variable is unset or
\* empty it returns an error and "".
ReplaceEnvVarsContract ==
    last.op = "replaceEnvVars" =>
        LET refs == FindAllVars(last.src)
            unset == \E i \in 1..Len(refs) :
                        Getenv(env, SubSeq(refs[i], 3, Len(refs[i]) - 1)) = <<>>
        IN  IF unset THEN last.err /\ last.s = <<>>
            ELSE ~last.err /\ last.s = SubstituteRefs(last.src, env)

----------------------------------------------------------------------------
(* Properties of Payment.String *)

\* The field of Payment that each label names, in the order of the labels.
FieldNamed ==
    <<"MerchantId", "MerchantCountry", "Amount", "TransactionId", "PaymentMeans",
      "TransmissionDate", "PaymentDate", "ResponseCode", "PaymentCertificate",
      "AuthorizationId", "CurrencyCode", "CardNumber", "CVVFlag",
      "CVVResponseCode", "BankResponseCode", "ComplementaryCode",
      "ComplementaryInfo", "ReturnContext", "Caddie", "ReceiptComplement",
      "MerchantLanguage", "Language", "CustomerId", "CustomerEmail",
      "CustomerIpAddress", "CaptureDay", "CaptureMode", "Data", "OrderValidity",
      "ScoreValue", "ScoreColor", "ScoreInfo", "ScoreThreshold", "ScoreProfile">>

\* The lines of text that begin with label.
LabelledLines(text, label) ==
    LET lines == Split(text, "\n") IN
    {lines[i] : i \in {k \in 1..Len(lines) : lines[k] # <<>> /\ lines[k][1] = label}}

\* C11: Payment.String prints every labelled line with the value of the
\* Payment field that the label names: each label is printed on one line,
\* followed by the value of the field of the same name.
PaymentStringLabelsMatchFields ==
    (last.op = "Printf" /\ ~IsNil(last.p)) =>
        \A i \in 1..Len(StringLabels) :
            LabelledLines(last.text, StringLabels[i]) =
                {<<StringLabels[i], ": ">>
                    \o FormatField(Deref(last.p), FieldNamed[i], last.zone)}

----------------------------------------------------------------------------
(* The handlers served concurrently: net/http runs every request in its    *)
(* own goroutine, so calls of Checkout and HandlePayment on the one Sogen  *)
(* overlap.  A call takes three steps: it builds its command from the      *)
(* Sogen, the binary runs and fills the call's buffer, and the call        *)
(* handles the buffer's content.                                           *)

\* The number of goroutines serving requests at a time.
MaxCalls == 2

CallIds == 1..MaxCalls

\* A goroutine that serves no request.
Idle ==
    [kind |-> "none", pc |-> "idle", t |-> Nil, r |-> Nil, cmd |-> <<>>,
     params |-> EmptyBag, out |-> <<>>, w |-> <<>>, ret |-> Nil, panic |-> FALSE]

\* The transactions of the concurrent requests: nil, one of a customer with
\* no URL of its own and one of a customer who overrides both URLs.
ConcTransactions ==
    {Nil} \cup
    {NewTransaction(Ptr(c), 100) :
        c \in {x \in Customers : /\ x.Id = <<"johndoe">>
                                 /\ IsNil(x.CancelUrl) = IsNil(x.ReturnUrl)}}

\* What the request binary prints for them.
ConcRequestOutputs == {<<>>, <<"!", "0", "!", "dbg", "!", "form", "!">>}

\* What the response binary prints for them.
ConcResponseOutputs ==
    {ResponseOutput(code, <<>>, PaymentFields(<<"4", "9", "9">>, GoodDate \o GoodTime,
                                              GoodTime, GoodDate, NumPaymentFields)) :
        code \in {<<"0">>, <<"1", "7">>}}

ConcInit ==
    /\ env \in {e \in Envs : e[VarA] = <<"x">> /\ e[VarB] = <<"x">>}
    /\ \E c \in ServeConfigs :
          LET r == NewSogen(Ptr(c), FsOf(CompletePaths, {}), {}) IN
          /\ conf = r.c
          /\ sogen = r.s
          /\ fs = r.fs
    /\ loaded = Nil
    /\ txn = Nil
    /\ calls = [i \in CallIds |-> Idle]
    /\ last = NoCall

\* The arguments of the response binary.
responseParams(s, data) ==
    SetToBag({ParamEntry("pathfile", s.pathFile), ParamEntry("message", data)})

\* Checkout up to exec.Command: the parameter list is built from the
\* Sogen, its Config and t, all of them only read.  A nil t panics in
\* requestParams.
BeginCheckout(i) ==
    \E t \in ConcTransactions :
        /\ calls[i].pc = "idle"
        /\ calls' = [calls EXCEPT ![i] =
                        IF Usable(t)
                        THEN [Idle EXCEPT !.kind = "Checkout", !.pc = "built", !.t = t,
                                          !.cmd = Deref(sogen).requestFile,
                                          !.params = requestParams(Deref(sogen),
                                                                   Deref(conf), t)]
                        ELSE [Idle EXCEPT !.kind = "Checkout", !.pc = "done", !.t = t,
                                          !.panic = TRUE]]
        /\ UNCHANGED <<env, fs, conf, loaded, sogen, txn, last>>

\* HandlePayment up to exec.Command; a nil request returns nil at once.
BeginHandlePayment(i) ==
    \E r \in {Nil, Ptr([DATA |-> <<"msg">>])} :
        /\ calls[i].pc = "idle"
        /\ calls' = [calls EXCEPT ![i] =
                        IF IsNil(r)
                        THEN [Idle EXCEPT !.kind = "HandlePayment", !.pc = "done"]
                        ELSE [Idle EXCEPT !.kind = "HandlePayment", !.pc = "built",
                                          !.r = r,
                                          !.cmd = Deref(sogen).responseFile,
                                          !.params = responseParams(Deref(sogen),
                                                                    Deref(r).DATA)]]
        /\ UNCHANGED <<env, fs, conf, loaded, sogen, txn, last>>

\* cmd.Stdout = &out; cmd.Run(): the binary writes to the buffer out, a
\* local of the call.
RunBinary(i) ==
    \E out \in IF calls[i].kind = "Checkout" THEN ConcRequestOutputs
               ELSE ConcResponseOutputs :
        /\ calls[i].pc = "built"
        /\ calls' = [calls EXCEPT ![i].pc = "ran", ![i].out = out]
        /\ UNCHANGED <<env, fs, conf, loaded, sogen, txn, last>>

\* The buffer as it would be were it shared by the calls: the one of the
\* first goroutine.
SharedBuffer(cs, i) == cs[1].out

\* out.String(): the content of the call's own buffer.
OutString(cs, i) == cs[i].out

\* The rest of Checkout or HandlePayment, from strings.Split on.
FinishCall(i) ==
    /\ calls[i].pc = "ran"
    /\ LET out == OutString(calls, i)
           h == IF calls[i].kind = "Checkout"
                THEN Checkout(Deref(sogen), Deref(conf), calls[i].t, out)
                ELSE HandlePayment(Deref(sogen), out)
       IN  calls' = [calls EXCEPT ![i].pc = "done", ![i].w = h.w,
                                  ![i].ret = h.ret, ![i].panic = h.panic]
    /\ UNCHANGED <<env, fs, conf, loaded, sogen, txn, last>>

\* The handler is over and the goroutine serves the next request.
EndCall(i) ==
    /\ calls[i].pc = "done"
    /\ calls' = [calls EXCEPT ![i] = Idle]
    /\ UNCHANGED <<env, fs, conf, loaded, sogen, txn, last>>

ConcNext ==
    \E i \in CallIds :
        \/ BeginCheckout(i)
        \/ BeginHandlePayment(i)
        \/ RunBinary(i)
        \/ FinishCall(i)
        \/ EndCall(i)

SpecConc == ConcInit /\ [][ConcNext]_vars

\* What a call that is over has written and returned, as a function of its
\* own transaction or request and of the output of the binary it ran.
OwnResult(call) ==
    IF call.kind = "Checkout"
    THEN IF Usable(call.t)
         THEN Checkout(Deref(sogen), Deref(conf), call.t, call.out)
         ELSE Panicked(<<>>)
    ELSE IF IsNil(call.r) THEN Returned(<<>>, Nil)
    ELSE HandlePayment(Deref(sogen), call.out)

\* The command of a call, as a function of its own transaction or request.
OwnCommand(call) ==
    IF call.kind = "Checkout"
    THEN [cmd |-> Deref(sogen).requestFile,
          params |-> requestParams(Deref(sogen), Deref(conf), call.t)]
    ELSE [cmd |-> Deref(sogen).responseFile,
          params |-> responseParams(Deref(sogen), Deref(call.r).DATA)]

\* C12: after NewSogen has returned, no step of any interleaving of
\* concurrent Checkout and HandlePayment calls on the Sogen changes the
\* Sogen's fields, its Config or the generated files, a customer's cancel
\* or return URL included; and what a call runs, writes and returns is
\* determined by its own transaction or request and by the output of the
\* binary it ran.
ConcurrentCallsAreIsolated ==
    /\ [][sogen' = sogen /\ conf' = conf /\ fs' = fs]_vars
    /\ [](\A i \in CallIds :
            /\ calls[i].pc \in {"built", "ran"} =>
                  [cmd |-> calls[i].cmd, params |-> calls[i].params]
                      = OwnCommand(calls[i])
            /\ calls[i].pc = "done" =>
                  [panic |-> calls[i].panic, w |-> calls[i].w, ret |-> calls[i].ret]
                      = OwnResult(calls[i]))

\* A Checkout of a customer who overrides the cancel URL is over, having
\* written its form, while a HandlePayment call whose binary printed
\* something else is still between cmd.Run and strings.Split.
ConcurrentCallsWitness ==
    \E i, j \in CallIds :
        /\ calls[i].kind = "Checkout"
        /\ calls[i].pc = "done"
        /\ ~calls[i].panic
        /\ calls[i].w = <<"dbg", "form">>
        /\ ~IsNil(Deref(Deref(calls[i].t).customer).CancelUrl)
        /\ calls[j].kind = "HandlePayment"
        /\ calls[j].pc = "ran"
        /\ calls[j].out # calls[i].out

====
